---------------------------- MODULE Spec2Model ----------------------------
(***************************************************************************)
(* Vexillographer.write_file (scripts/vexillographer.py): the driver that  *)
(* reads the options XML and calls the emitter's five methods.             *)
(*                                                                         *)
(* The state is the position of write_file in its body (pc), its local     *)
(* variables (input_xml, the two loop positions, scope_name), the log of   *)
(* the emitter calls made so far, and the exception that left write_file,  *)
(* if any.  The emitter is the caller's object: each of its methods either *)
(* returns or raises, and what it raised is recorded apart from what       *)
(* write_file let through.  One action per statement of write_file that    *)
(* calls the emitter or can raise.                                         *)
(***************************************************************************)
EXTENDS Integers, Sequences, FiniteSets, TLC

VARIABLES
    option_file,   \* self.option_file: the content of the input stream
    input_xml,     \* the local input_xml: None until ElementTree.parse returns
    pc,            \* the statement of write_file that runs next
    i,             \* position of `for scope_node in input_xml.getroot()`
    j,             \* position of `for option_node in scope_node`
    scope_name,    \* the local scope_name of the current iteration
    calls,         \* the emitter methods invoked so far, with their arguments
    error,         \* the exception that propagated out of write_file, or "none"
    emitterRaised, \* the exception an emitter method raised, or "none"
    failedCall     \* index in calls of the emitter call that raised, or 0

vars ==
    <<option_file, input_xml, pc, i, j, scope_name, calls, error,
      emitterRaised, failedCall>>

-----------------------------------------------------------------------------
(* Bounds of the model. *)

\* The largest number of elements (scopes plus options) below the root.
MaxNodes == 3

-----------------------------------------------------------------------------
(* Attribute dictionaries.  An element's attrib is a Python dict: a function *)
(* whose domain holds the attributes that are present.  Names and            *)
(* descriptions are only ever compared for equality, so they are atomic      *)
(* strings; a code is parsed by int(), so it is a sequence of characters.    *)

None == "None"

Attr1(k, v) == k :> v
Attr2(k1, v1, k2, v2) == (k1 :> v1) @@ (k2 :> v2)
Attr3(k1, v1, k2, v2, k3, v3) == (k1 :> v1) @@ (k2 :> v2) @@ (k3 :> v3)
NoAttr == [k \in {} |-> ""]

\* dict.get(key, default)
AttribGet(attrib, key, default) ==
    IF key \in DOMAIN attrib THEN attrib[key] ELSE default


-----------------------------------------------------------------------------
(* int(text) for a str argument, base 10: surrounding whitespace is        *)
(* stripped, one sign is allowed, and the rest must be decimal digits,      *)
(* which single underscores may separate.  Anything else is a ValueError.   *)
(* Python integers do not overflow.  (Inputs here are ASCII.)               *)

Whitespace == {" "}
Digits == {"0", "1", "2", "3", "4", "5", "6", "7", "8", "9"}

DigitValue(c) ==
    CASE c = "0" -> 0 [] c = "1" -> 1 [] c = "2" -> 2 [] c = "3" -> 3
      [] c = "4" -> 4 [] c = "5" -> 5 [] c = "6" -> 6 [] c = "7" -> 7
      [] c = "8" -> 8 [] c = "9" -> 9

RECURSIVE LStrip(_)
LStrip(s) ==
    IF s # <<>> /\ Head(s) \in Whitespace THEN LStrip(Tail(s)) ELSE s

RECURSIVE RStrip(_)
RStrip(s) ==
    IF s # <<>> /\ s[Len(s)] \in Whitespace
    THEN RStrip(SubSeq(s, 1, Len(s) - 1))
    ELSE s

Strip(s) == RStrip(LStrip(s))

HasSign(s) == s # <<>> /\ Head(s) \in {"+", "-"}
Unsigned(s) == IF HasSign(s) THEN Tail(s) ELSE s

\* A digit test that lets the empty string through.
IsDigitStringOrEmpty(s) ==
    /\ \A k \in 1..Len(s) : s[k] \in Digits \cup {"_"}
    /\ s # <<>> => s[1] \in Digits /\ s[Len(s)] \in Digits
    /\ \A k \in 1..(Len(s) - 1) : ~(s[k] = "_" /\ s[k + 1] = "_")

\* The digits part of a literal: digits, single underscores only between them.
IsDigitString(s) ==
    /\ s # <<>>
    /\ \A k \in 1..Len(s) : s[k] \in Digits \cup {"_"}
    /\ s[1] \in Digits
    /\ s[Len(s)] \in Digits
    /\ \A k \in 1..(Len(s) - 1) : ~(s[k] = "_" /\ s[k + 1] = "_")

RECURSIVE DigitStringValue(_, _)
DigitStringValue(s, acc) ==
    IF s = <<>> THEN acc
    ELSE IF Head(s) = "_" THEN DigitStringValue(Tail(s), acc)
    ELSE DigitStringValue(Tail(s), 10 * acc + DigitValue(Head(s)))

\* Whether int(text) returns rather than raising ValueError.
IntParses(text) == IsDigitString(Unsigned(Strip(text)))

\* The value int(text) returns, when it returns.
IntValue(text) ==
    LET t == Strip(text)
        magnitude == DigitStringValue(Unsigned(t), 0)
    IN  IF HasSign(t) /\ Head(t) = "-" THEN 0 - magnitude ELSE magnitude

-----------------------------------------------------------------------------
(* The two derived flags. *)

\* A comparison that ignores case.
SignedIgnoringCase(name) == name \in {"StreamingMode", "streamingmode"}

\* signed = scope_name == 'StreamingMode'
Signed(name) == name = "StreamingMode"

\* attrib.get('description') without the default.
DescriptionWithoutDefault(attrib) == AttribGet(attrib, "description", None)

\* description = option_node.attrib.get('description', '')
Description(attrib) == AttribGet(attrib, "description", "")

\* description.startswith('Deprecated')
DeprecatedByPrefix(description) ==
    description \in {"Deprecated", "Deprecated in 7.0"}

\* deprecated = description == 'Deprecated'
Deprecated(description) == description = "Deprecated"

-----------------------------------------------------------------------------
(* The inputs: every document of at most MaxNodes elements whose scope and  *)
(* option elements carry the attribute dictionaries below, and one input    *)
(* that is not well-formed XML.                                             *)

ScopeAttribs ==
    { NoAttr,
      Attr1("name", "StreamingMode"),
      Attr1("name", "streamingmode"),
      Attr1("name", "StreamingModeX"),
      Attr1("name", "NetworkOption") }

OptionAttribs ==
    { Attr3("name", "trace_enable", "code", <<"3", "0">>,
            "description", "Deprecated in 7.0"),
      Attr3("name", "old_flag", "code", <<"5">>, "description", "Deprecated"),
      Attr2("name", "iterator", "code", <<"1">>),
      Attr3("name", "iterator", "code", <<"1">>, "description", ""),
      Attr3("name", "small", "code", <<"-", "7">>, "description", "deprecated"),
      Attr3("name", "padded", "code", <<" ", "1", "2", " ">>,
            "description", "This option is Deprecated"),
      Attr2("code", <<"1">>, "description", "no name"),
      Attr2("name", "no_code", "description", "Deprecated"),
      Attr2("name", "bad_code", "code", <<"a", "b", "c">>),
      Attr3("name", "empty_code", "code", <<>>, "description", "Deprecated"),
      Attr1("code", <<"x">>) }

OptionNodes == { [attrib |-> a] : a \in OptionAttribs }

RECURSIVE OptionSeqs(_)
OptionSeqs(n) ==
    IF n = 0 THEN { <<>> }
    ELSE { <<o>> \o rest : o \in OptionNodes, rest \in OptionSeqs(n - 1) }

\* The scope elements that have n elements in all (the scope and its options).
ScopeNodes(n) ==
    { [attrib |-> a, children |-> c] : a \in ScopeAttribs, c \in OptionSeqs(n - 1) }

\* The children of the root that have n elements in all.
RECURSIVE Roots(_)
Roots(n) ==
    IF n = 0 THEN { <<>> }
    ELSE UNION { { <<s>> \o rest : s \in ScopeNodes(k), rest \in Roots(n - k) } :
                 k \in 1..n }

NotWellFormed == [wellFormed |-> FALSE]
WellFormed(root) == [wellFormed |-> TRUE, root |-> root]

-----
(* write_file *)

NotParsed == [parsed |-> FALSE]
ElementTree(root) == [parsed |-> TRUE, root |-> root]

Init ==
    /\ \/ option_file = NotWellFormed
       \/ \E n \in 0..MaxNodes : \E root \in Roots(n) :
              option_file = WellFormed(root)
    /\ input_xml = NotParsed
    /\ pc = "print_header_warning"
    /\ i = 0
    /\ j = 0
    /\ scope_name = None
    /\ calls = <<>>
    /\ error = "none"
    /\ emitterRaised = "none"
    /\ failedCall = 0

\* The footer written on the way out, as a finally clause would.
RaiseAfterFooter(exception) ==
    /\ pc' = "failed"
    /\ error' = exception
    /\ calls' = Append(calls, [op |-> "print_footer"])
    /\ UNCHANGED <<option_file, input_xml, i, j, scope_name,
                   emitterRaised, failedCall>>

\* The output discarded on the way out.
RaiseAfterRollback(exception) ==
    /\ pc' = "failed"
    /\ error' = exception
    /\ calls' = <<>>
    /\ UNCHANGED <<option_file, input_xml, i, j, scope_name,
                   emitterRaised, failedCall>>

\* An exception raised by write_file's own code: nothing catches it.
Raise(exception) ==
    /\ pc' = "failed"
    /\ error' = exception
    /\ UNCHANGED <<option_file, input_xml, i, j, scope_name, calls,
                   emitterRaised, failedCall>>

\* What a call of an emitter method can do: return, or raise an exception.
EmitterExceptions == {"IOError", "RuntimeError"}
EmitterOutcomes == {"returns"} \cup EmitterExceptions

\* An emitter call wrapped in try/except: pass.
EmitAndSwallow(call, outcome, next) ==
    /\ calls' = Append(calls, call)
    /\ pc' = next
    /\ IF outcome = "returns"
       THEN UNCHANGED <<error, emitterRaised, failedCall>>
       ELSE /\ emitterRaised' = outcome
            /\ failedCall' = Len(calls) + 1
            /\ UNCHANGED error

\* self.emitter.<method>(...): the method is invoked; it returns and
\* write_file goes on at `next`, or it raises and the exception leaves
\* write_file, which has no try statement.
Emit(call, outcome, next) ==
    /\ calls' = Append(calls, call)
    /\ IF outcome = "returns"
       THEN /\ pc' = next
            /\ UNCHANGED <<error, emitterRaised, failedCall>>
       ELSE /\ pc' = "failed"
            /\ error' = outcome
            /\ emitterRaised' = outcome
            /\ failedCall' = Len(calls) + 1

\* self.emitter.print_header_warning()
PrintHeaderWarning ==
    /\ pc = "print_header_warning"
    /\ \E outcome \in EmitterOutcomes :
           Emit([op |-> "print_header_warning"], outcome, "parse")
    /\ UNCHANGED <<option_file, input_xml, i, j, scope_name>>

\* A parse that hands the scopes back in reverse document order.
ParseReversed ==
    /\ pc = "parse"
    /\ IF option_file.wellFormed
       THEN /\ input_xml' =
                   ElementTree([k \in 1..Len(option_file.root) |->
                       option_file.root[Len(option_file.root) + 1 - k]])
            /\ i' = 1
            /\ pc' = "scope_loop"
            /\ UNCHANGED <<option_file, j, scope_name, calls, error,
                           emitterRaised, failedCall>>
       ELSE Raise("ParseError")

\* input_xml = ElementTree.parse(self.option_file), and the start of the
\* loop over input_xml.getroot()
Parse ==
    /\ pc = "parse"
    /\ IF option_file.wellFormed
       THEN /\ input_xml' = ElementTree(option_file.root)
            /\ i' = 1
            /\ pc' = "scope_loop"
            /\ UNCHANGED <<option_file, j, scope_name, calls, error,
                           emitterRaised, failedCall>>
       ELSE Raise("ParseError")

\* scope_node.attrib.get('name') in place of scope_node.attrib['name'].
WriteScopeStartUnchecked ==
    /\ pc = "scope_loop"
    /\ i <= Len(input_xml.root)
    /\ LET scope_node == input_xml.root[i]
           name == AttribGet(scope_node.attrib, "name", None)
       IN  /\ scope_name' = name
           /\ j' = 1
           /\ \E outcome \in EmitterOutcomes :
                  Emit([op |-> "write_scope_start",
                        name |-> name,
                        signed |-> Signed(name)],
                       outcome, "option_loop")
           /\ UNCHANGED <<option_file, input_xml, i>>

\* One iteration of the outer loop up to write_scope_start, and the start of
\* the inner loop.
WriteScopeStart ==
    /\ pc = "scope_loop"
    /\ i <= Len(input_xml.root)
    /\ LET scope_node == input_xml.root[i] IN
       IF "name" \notin DOMAIN scope_node.attrib
       THEN Raise("KeyError")
       ELSE /\ scope_name' = scope_node.attrib["name"]
            /\ j' = 1
            /\ \E outcome \in EmitterOutcomes :
                   Emit([op |-> "write_scope_start",
                         name |-> scope_node.attrib["name"],
                         signed |-> Signed(scope_node.attrib["name"])],
                        outcome, "option_loop")
            /\ UNCHANGED <<option_file, input_xml, i>>

\* One iteration of the inner loop.  The arguments are evaluated left to
\* right: attrib['name'], then attrib['code'], then int().
WriteOption ==
    /\ pc = "option_loop"
    /\ j <= Len(input_xml.root[i].children)
    /\ LET option_node == input_xml.root[i].children[j]
           description == Description(option_node.attrib)
           deprecated == Deprecated(description)
       IN  IF "name" \notin DOMAIN option_node.attrib
           THEN Raise("KeyError")
           ELSE IF "code" \notin DOMAIN option_node.attrib
           THEN Raise("KeyError")
           ELSE IF ~IntParses(option_node.attrib["code"])
           THEN Raise("ValueError")
           ELSE /\ j' = j + 1
                /\ \E outcome \in EmitterOutcomes :
                       Emit([op |-> "write_option",
                             name |-> option_node.attrib["name"],
                             code |-> IntValue(option_node.attrib["code"]),
                             description |-> description,
                             scope_name |-> scope_name,
                             deprecated |-> deprecated],
                            outcome, "option_loop")
                /\ UNCHANGED <<option_file, input_xml, i, scope_name>>

\* A scope end that is left out for a scope without options.
WriteScopeEndUnlessEmpty ==
    /\ pc = "option_loop"
    /\ j > Len(input_xml.root[i].children)
    /\ i' = i + 1
    /\ IF input_xml.root[i].children = <<>>
       THEN /\ pc' = "scope_loop"
            /\ UNCHANGED <<calls, error, emitterRaised, failedCall>>
       ELSE \E outcome \in EmitterOutcomes :
                Emit([op |-> "write_scope_end"], outcome, "scope_loop")
    /\ UNCHANGED <<option_file, input_xml, j, scope_name>>

\* self.emitter.write_scope_end(), when the inner loop is exhausted
WriteScopeEnd ==
    /\ pc = "option_loop"
    /\ j > Len(input_xml.root[i].children)
    /\ i' = i + 1
    /\ \E outcome \in EmitterOutcomes :
           Emit([op |-> "write_scope_end"], outcome, "scope_loop")
    /\ UNCHANGED <<option_file, input_xml, j, scope_name>>

\* self.emitter.print_footer(), when the outer loop is exhausted
PrintFooter ==
    /\ pc = "scope_loop"
    /\ i > Len(input_xml.root)
    /\ \E outcome \in EmitterOutcomes :
           Emit([op |-> "print_footer"], outcome, "done")
    /\ UNCHANGED <<option_file, input_xml, i, j, scope_name>>

Next ==
    \/ PrintHeaderWarning
    \/ Parse
    \/ WriteScopeStart
    \/ WriteOption
    \/ WriteScopeEnd
    \/ PrintFooter

Spec == Init /\ [][Next]_vars

-----------------------------------------------------------------------------
(* What the properties below are stated in: the calls an input asks for,    *)
(* written down from the input alone, and the element of the input that a   *)
(* call in the log belongs to.                                              *)

Header == [op |-> "print_header_warning"]
Footer == [op |-> "print_footer"]
ScopeEnd == [op |-> "write_scope_end"]

IsPrefix(a, b) == Len(a) <= Len(b) /\ SubSeq(b, 1, Len(a)) = a

\* The code texts of the inputs that are decimal integers, with their values.
DecimalLiterals ==
    { << <<"3", "0">>, 30 >>,
      << <<"5">>, 5 >>,
      << <<"1">>, 1 >>,
      << <<"-", "7">>, -7 >>,
      << <<" ", "1", "2", " ">>, 12 >> }

IsDecimal(text) == \E p \in DecimalLiterals : p[1] = text
DecimalValue(text) == (CHOOSE p \in DecimalLiterals : p[1] = text)[2]

ScopeNamed(s) == "name" \in DOMAIN s.attrib
HasRequired(o) == {"name", "code"} \subseteq DOMAIN o.attrib
OptionOK(o) == HasRequired(o) /\ IsDecimal(o.attrib["code"])
ScopeOK(s) ==
    ScopeNamed(s) /\ \A k \in 1..Len(s.children) : OptionOK(s.children[k])
RootOK(root) == \A k \in 1..Len(root) : ScopeOK(root[k])
InputOK == option_file.wellFormed /\ RootOK(option_file.root)
InputFaulty == option_file.wellFormed /\ ~RootOK(option_file.root)

ExpectedOption(sname, o) ==
    LET text == IF "description" \in DOMAIN o.attrib
                THEN o.attrib["description"] ELSE ""
    IN  [op |-> "write_option",
         name |-> o.attrib["name"],
         code |-> DecimalValue(o.attrib["code"]),
         description |-> text,
         scope_name |-> sname,
         deprecated |-> (text = "Deprecated")]

ExpectedOptions(sname, options) ==
    [k \in 1..Len(options) |-> ExpectedOption(sname, options[k])]

ExpectedScopeStart(s) ==
    [op |-> "write_scope_start",
     name |-> s.attrib["name"],
     signed |-> (s.attrib["name"] = "StreamingMode")]

ExpectedScope(s) ==
    <<ExpectedScopeStart(s)>>
        \o ExpectedOptions(s.attrib["name"], s.children)
        \o <<ScopeEnd>>

RECURSIVE ExpectedScopes(_)
ExpectedScopes(scopes) ==
    IF scopes = <<>> THEN <<>>
    ELSE ExpectedScope(Head(scopes)) \o ExpectedScopes(Tail(scopes))

ExpectedCalls(root) == <<Header>> \o ExpectedScopes(root) \o <<Footer>>

\* The first faulty element in document order, of a root that has one: the
\* scope it is or lies in, and its position among that scope's options (0
\* when the scope itself lacks its name).
FaultScope(root) ==
    CHOOSE k \in 1..Len(root) :
        ~ScopeOK(root[k]) /\ \A m \in 1..(k - 1) : ScopeOK(root[m])

FaultOption(root) ==
    LET s == root[FaultScope(root)]
    IN  IF ~ScopeNamed(s) THEN 0
        ELSE CHOOSE k \in 1..Len(s.children) :
                 /\ ~OptionOK(s.children[k])
                 /\ \A m \in 1..(k - 1) : OptionOK(s.children[m])

FaultIsMissingAttribute(root) ==
    LET s == root[FaultScope(root)]
    IN  ~ScopeNamed(s) \/ ~HasRequired(s.children[FaultOption(root)])

FaultIsBadCode(root) ==
    LET s == root[FaultScope(root)]
    IN  ScopeNamed(s) /\ HasRequired(s.children[FaultOption(root)])

PriorScopes(root) == SubSeq(root, 1, FaultScope(root) - 1)

\* The calls for everything that precedes the first faulty element.
CallsBeforeFault(root) ==
    LET s == root[FaultScope(root)]
    IN  <<Header>>
            \o ExpectedScopes(PriorScopes(root))
            \o IF ~ScopeNamed(s) THEN <<>>
               ELSE <<ExpectedScopeStart(s)>>
                        \o ExpectedOptions(s.attrib["name"],
                               SubSeq(s.children, 1, FaultOption(root) - 1))

\* The calls made when no emitter method raises.
CallsWithoutEmitterFailure ==
    IF ~option_file.wellFormed THEN <<Header>>
    ELSE IF RootOK(option_file.root) THEN ExpectedCalls(option_file.root)
    ELSE CallsBeforeFault(option_file.root)

OpsUpTo(k, op) == Cardinality({ m \in 1..k : calls[m].op = op })
StartsUpTo(k) == OpsUpTo(k, "write_scope_start")
EndsUpTo(k) == OpsUpTo(k, "write_scope_end")
Depth(k) == StartsUpTo(k) - EndsUpTo(k)

\* The most recent write_scope_start at or before call k.
LastStart(k) ==
    CHOOSE m \in 1..k :
        /\ calls[m].op = "write_scope_start"
        /\ \A n \in (m + 1)..k : calls[n].op # "write_scope_start"

\* The scope element that call k, made inside a scope, belongs to.
ScopeOfCall(k) == option_file.root[StartsUpTo(k)]

\* The option element that the write_option call k was made for.
OptionOfCall(k) == ScopeOfCall(k).children[k - LastStart(k)]

MalformedInputErrors == {"ParseError", "KeyError", "ValueError"}

-----------------------------------------------------------------------------
\* C1: for an input that is well-formed XML with every required attribute
\* present and every code a decimal integer, and an emitter that never
\* raises, write_file does not fail and the calls it makes are, at every
\* moment, a prefix of print_header_warning, then per scope in document order
\* write_scope_start, one write_option per option in document order and
\* write_scope_end, then print_footer; when write_file returns they are
\* exactly that sequence, scopes and options of equal names included.
OrderPreservation ==
    (InputOK /\ emitterRaised = "none") =>
        /\ error = "none"
        /\ pc # "failed"
        /\ IsPrefix(calls, ExpectedCalls(option_file.root))
        /\ pc = "done" => calls = ExpectedCalls(option_file.root)

\* write_file has returned for one scope holding two options of one name.
OrderPreservationWitness ==
    /\ pc = "done"
    /\ InputOK
    /\ Len(option_file.root) = 1
    /\ Len(option_file.root[1].children) = 2
    /\ option_file.root[1].children[1].attrib["name"]
           = option_file.root[1].children[2].attrib["name"]
    /\ option_file.root[1].children[1] # option_file.root[1].children[2]
    /\ Len(calls) = 6

\* C7: every write_scope_start carries the name attribute of its scope, and
\* its signed argument is true exactly when that name is "StreamingMode":
\* false for "streamingmode", "StreamingModeX" and every other name, at any
\* position and with any options.
SignedDerivation ==
    \A k \in 1..Len(calls) :
        calls[k].op = "write_scope_start" =>
            /\ calls[k].name = ScopeOfCall(k).attrib["name"]
            /\ calls[k].signed \in BOOLEAN
            /\ calls[k].signed <=> (calls[k].name = "StreamingMode")
            /\ calls[k].name \in {"streamingmode", "StreamingModeX", "NetworkOption"}
                   => calls[k].signed = FALSE

\* Two scopes were started: a case variant first, then "StreamingMode".
SignedDerivationWitness ==
    /\ Len(calls) >= 4
    /\ calls[2] = [op |-> "write_scope_start", name |-> "streamingmode",
                   signed |-> FALSE]
    /\ calls[4] = [op |-> "write_scope_start", name |-> "StreamingMode",
                   signed |-> TRUE]

\* C8: in every write_option, deprecated is true exactly when the description
\* passed in the same call is "Deprecated": false for the empty description,
\* for "deprecated", and for a description that only contains or starts with
\* "Deprecated".
DeprecatedDerivation ==
    \A k \in 1..Len(calls) :
        calls[k].op = "write_option" =>
            /\ calls[k].deprecated \in BOOLEAN
            /\ calls[k].deprecated <=> (calls[k].description = "Deprecated")
            /\ calls[k].description \in
                   {"", "deprecated", "This option is Deprecated",
                    "Deprecated in 7.0"}
                   => calls[k].deprecated = FALSE

\* One scope with an option described by a longer text that starts with
\* "Deprecated", and then an option described as "Deprecated".
DeprecatedDerivationWitness ==
    /\ Len(calls) >= 4
    /\ calls[3].op = "write_option"
    /\ calls[3].description = "Deprecated in 7.0"
    /\ ~calls[3].deprecated
    /\ calls[4].op = "write_option"
    /\ calls[4].description = "Deprecated"
    /\ calls[4].deprecated

\* C9: the write_option made for an option without a description attribute
\* has description "" and deprecated false; the one made for an option with
\* the attribute passes its value verbatim; and a missing description is
\* never what makes write_file fail.
MissingDescriptionDefaults ==
    /\ \A k \in 1..Len(calls) :
           calls[k].op = "write_option" =>
               IF "description" \in DOMAIN OptionOfCall(k).attrib
               THEN calls[k].description = OptionOfCall(k).attrib["description"]
               ELSE calls[k].description = "" /\ calls[k].deprecated = FALSE
    /\ InputOK => error \notin MalformedInputErrors

\* An option without description and an option with an empty one, otherwise
\* alike, were emitted by the same call.
MissingDescriptionDefaultsWitness ==
    /\ Len(calls) >= 4
    /\ calls[3].op = "write_option"
    /\ calls[4].op = "write_option"
    /\ "description" \notin DOMAIN OptionOfCall(3).attrib
    /\ "description" \in DOMAIN OptionOfCall(4).attrib
    /\ OptionOfCall(4).attrib["description"] = ""
    /\ calls[3] = calls[4]

\* C10: at every moment of a run, however it ends, the calls made so far are
\* bracketed.  After each call the number of write_scope_start calls exceeds
\* the number of write_scope_end calls by 0 or 1; each write_option is made
\* while the excess is 1 and carries the name given to the most recent
\* write_scope_start; print_footer is made while the excess is 0, after as
\* many write_scope_end calls as the input has scopes, and it is the last
\* call, so it is made at most once.
CallsBracketed ==
    \A k \in 1..Len(calls) :
        /\ Depth(k) \in {0, 1}
        /\ calls[k].op = "write_scope_start" => Depth(k - 1) = 0
        /\ calls[k].op = "write_scope_end" => Depth(k - 1) = 1
        /\ calls[k].op = "write_option" =>
               /\ Depth(k - 1) = 1
               /\ calls[k].scope_name = calls[LastStart(k)].name
        /\ calls[k].op = "print_header_warning" => k = 1
        /\ calls[k].op = "print_footer" =>
               /\ k = Len(calls)
               /\ Depth(k - 1) = 0
               /\ option_file.wellFormed
               /\ EndsUpTo(k - 1) = Len(option_file.root)

\* A run that aborted on a missing attribute inside its second scope.
CallsBracketedWitness ==
    /\ pc = "failed"
    /\ error = "KeyError"
    /\ Depth(Len(calls)) = 1
    /\ StartsUpTo(Len(calls)) = 2

\* C6: when an emitter method raises, that exception is the one that leaves
\* write_file; the failing call is the last call made, so it is not made
\* again and nothing is called after it (print_footer only when it is the
\* failing call itself); and the calls up to it are those a run without
\* emitter failure makes.
EmitterFailurePropagates ==
    /\ emitterRaised # "none" =>
           /\ error = emitterRaised
           /\ pc = "failed"
           /\ failedCall = Len(calls)
           /\ IsPrefix(calls, CallsWithoutEmitterFailure)
           /\ \A k \in 1..Len(calls) :
                  calls[k].op = "print_footer" => k = failedCall
    /\ error \in EmitterExceptions => emitterRaised = error
    /\ emitterRaised = "none" => failedCall = 0

\* A write_option raised in the middle of a scope.
EmitterFailurePropagatesWitness ==
    /\ emitterRaised = "IOError"
    /\ failedCall = 3
    /\ calls[3].op = "write_option"
    /\ Len(option_file.root[1].children) = 2

\* C5: write_option is never called for an option whose code is no decimal
\* integer.  When the first faulty element of the input is an option whose
\* code is present but is no decimal integer, the calls made never go beyond
\* those for the elements before that option: write_file never returns, and
\* once it has failed without an emitter exception the failure is the
\* ValueError and the calls are exactly those, with no write_option for the
\* option, no write_scope_end for its scope and no print_footer.
BadCodeAborts ==
    /\ \A k \in 1..Len(calls) :
           calls[k].op = "write_option" =>
               IsDecimal(OptionOfCall(k).attrib["code"])
    /\ (InputFaulty /\ FaultIsBadCode(option_file.root)) =>
           /\ IsPrefix(calls, CallsBeforeFault(option_file.root))
           /\ pc # "done"
           /\ (pc = "failed" /\ emitterRaised = "none") =>
                  /\ error = "ValueError"
                  /\ calls = CallsBeforeFault(option_file.root)
    /\ error = "ValueError" =>
           /\ InputFaulty
           /\ FaultIsBadCode(option_file.root)
           /\ pc = "failed"
           /\ calls[Len(calls)].op \in {"write_scope_start", "write_option"}

\* The run failed on code="abc" in an option that follows a good one.
BadCodeAbortsWitness ==
    /\ error = "ValueError"
    /\ Len(calls) = 3
    /\ calls[3].op = "write_option"
    /\ option_file.root[1].children[2].attrib["code"] = <<"a", "b", "c">>

\* C2, as claimed: when write_file has failed on malformed input (the input
\* is not well-formed XML, a required attribute is missing, or a code is no
\* integer), no emitter method at all has been called.
NoOutputOnMalformedInput ==
    error \in MalformedInputErrors => calls = <<>>

\* C2, amended: when write_file has failed on malformed input, the run has
\* stopped there, but not without output: print_header_warning has been
\* called first, before the input was parsed; it is the only call when the
\* input is not well-formed XML, and otherwise the calls are those for the
\* elements before the faulty one; print_footer has not been called; and an
\* input that is malformed never lets write_file return.
MalformedInputAbortsAfterHeader ==
    /\ error \in MalformedInputErrors =>
           /\ pc = "failed"
           /\ emitterRaised = "none"
           /\ calls # <<>>
           /\ calls[1] = Header
           /\ \A k \in 1..Len(calls) : calls[k].op # "print_footer"
           /\ IF error = "ParseError"
              THEN ~option_file.wellFormed /\ calls = <<Header>>
              ELSE InputFaulty /\ calls = CallsBeforeFault(option_file.root)
    /\ ~InputOK =>
           /\ pc # "done"
           /\ IsPrefix(calls, CallsWithoutEmitterFailure)
           /\ (pc = "failed" /\ emitterRaised = "none") =>
                  error \in MalformedInputErrors

\* The input was not well-formed XML: the header is out and the run failed.
MalformedInputAbortsAfterHeaderWitness ==
    /\ error = "ParseError"
    /\ ~option_file.wellFormed
    /\ calls = <<Header>>

\* C3, as claimed: no emitter method is called before the input has been
\* parsed, and a scope whose write_scope_start has been called is fully
\* valid, its options included.
ParsedBeforeDriverBegins ==
    /\ calls # <<>> => input_xml.parsed
    /\ \A k \in 1..Len(calls) :
           calls[k].op = "write_scope_start" => ScopeOK(ScopeOfCall(k))

\* C3, amended: print_header_warning is called before the input is parsed;
\* every other emitter call is made after the whole input has been parsed,
\* so that every scope is fully populated before its write_scope_start; a
\* scope's name is validated before its write_scope_start, and an option's
\* name and code are validated before its own write_option, which is after
\* the write_scope_start of its scope.
ParsedAfterHeaderBeforeScopes ==
    /\ input_xml.parsed =>
           /\ option_file.wellFormed
           /\ input_xml.root = option_file.root
           /\ calls # <<>>
           /\ calls[1] = Header
    /\ \A k \in 1..Len(calls) :
           /\ calls[k].op # "print_header_warning" => input_xml.parsed
           /\ calls[k].op = "write_scope_start" => ScopeNamed(ScopeOfCall(k))
           /\ calls[k].op = "write_option" =>
                  (k > LastStart(k) /\ OptionOK(OptionOfCall(k)))

\* A scope was started although one of its options is faulty.
ParsedAfterHeaderBeforeScopesWitness ==
    /\ input_xml.parsed
    /\ Len(calls) >= 2
    /\ calls[Len(calls)].op = "write_scope_start"
    /\ ~ScopeOK(ScopeOfCall(Len(calls)))
    /\ emitterRaised = "none"

\* C4, as claimed: when write_file has failed on a missing attribute, the
\* calls made (after the header) are only the complete groups of the scopes
\* before the one that holds the faulty element.
MissingAttributeLeavesOnlyPriorScopes ==
    error = "KeyError" =>
        calls = <<Header>> \o ExpectedScopes(PriorScopes(option_file.root))

\* C4, amended: when the first faulty element of the input lacks a required
\* attribute, write_file fails with the KeyError, and the calls made by then
\* are print_header_warning, the complete groups of the scopes before the
\* one that holds the faulty element and, when the faulty element is an
\* option, the write_scope_start of its own scope and the write_option
\* calls of the options before it; that scope gets no write_scope_end, and
\* nothing already called is taken back.
MissingAttributeAbortsMidScope ==
    /\ (InputFaulty /\ FaultIsMissingAttribute(option_file.root)) =>
           /\ IsPrefix(calls, CallsBeforeFault(option_file.root))
           /\ pc # "done"
           /\ (pc = "failed" /\ emitterRaised = "none") =>
                  /\ error = "KeyError"
                  /\ calls = CallsBeforeFault(option_file.root)
    /\ error = "KeyError" =>
           /\ InputFaulty
           /\ FaultIsMissingAttribute(option_file.root)
           /\ pc = "failed"
           /\ EndsUpTo(Len(calls)) = FaultScope(option_file.root) - 1
           /\ StartsUpTo(Len(calls)) =
                  IF FaultOption(option_file.root) = 0
                  THEN FaultScope(option_file.root) - 1
                  ELSE FaultScope(option_file.root)

\* The run failed on an option without name, in the second scope.
MissingAttributeAbortsMidScopeWitness ==
    /\ error = "KeyError"
    /\ FaultScope(option_file.root) = 2
    /\ FaultOption(option_file.root) = 1
    /\ "name" \notin DOMAIN option_file.root[2].children[1].attrib
    /\ Len(calls) = 4
    /\ calls[4].op = "write_scope_start"

=============================================================================
